---------------------------- MODULE Spec2Model ----------------------------
(***************************************************************************)
(* Model of backend/main.py: the ConnectionManager (connection registry,  *)
(* session store, user index), the websocket frame loop and the session   *)
(* HTTP endpoints.                                                         *)
(*                                                                         *)
(* Strings that the code slices or tests for emptiness (titles, message    *)
(* contents) are sequences of one-character strings.  Timestamps           *)
(* (created_at, updated_at, Message.timestamp) are written by the code but *)
(* never read by it; they are left out of the state.                       *)
(*                                                                         *)
(* Scheduling: one asyncio event loop.  A coroutine runs without           *)
(* interruption from one `await' to the next.  In websocket_endpoint the   *)
(* awaits are accept(), receive_text() and send_text(); the call           *)
(* conversation.predict(...) is an ordinary (non awaited) call, so while   *)
(* it runs no other coroutine of the process can run.                      *)
(***************************************************************************)
EXTENDS Integers, Sequences, FiniteSets, TLC

VARIABLES
    active_connections, \* ConnectionManager.active_connections: client id -> websocket
    chat_sessions,      \* ConnectionManager.chat_sessions: session id -> ChatSession
    user_sessions,      \* ConnectionManager.user_sessions: user id -> list of session ids
    pc,                 \* per websocket: where its websocket_endpoint coroutine stands
    client_id,          \* per websocket: the path parameter client_id
    session,            \* per websocket: local variable session (its id)
    received,           \* the frame parsed in the step just taken, if any
    sent,               \* the send_text call of the step just taken, if any
    response            \* the HTTP response of the step just taken, if any

vars == <<active_connections, chat_sessions, user_sessions, pc, client_id,
          session, received, sent, response>>

---------------------------------------------------------------------------
(* Bounds of the model *)

MaxChannels == 2

MaxSessions == 2

MaxMessages == 3

Channels == 1..MaxChannels

---------------------------------------------------------------------------
(* Values *)

\* Python None where a session id is expected (message_data.get("session_id")).
NoId == 0

\* A session id the store never issued, such as the "nonexistent-id" of the
\* tests: a string that is not the text of any UUID.
ForeignIds == {-1}

\* Python None where a user id is expected.
NoUser == "<None>"

\* Python None where a title is expected.
NoTitle == <<"<None>">>

\* The "message" key is absent from the frame.
Missing == <<"<missing>">>

\* Value of a local variable that has not been assigned yet.
Unset == [unset |-> TRUE]

ClientIds == {"x", "y"}

\* Usernames of authenticated users (current_user.username).
Usernames == {"alice", "bob"}

\* Values a frame can carry as user_id: absent/null, the empty string, a name.
UserIdInputs == {NoUser, ""} \cup Usernames

\* Values a title can take in a frame or in POST /sessions.
TitleInputs == {NoTitle, <<>>, <<"T", "1">>}

TitleMax == 30

Ellipsis == <<".", ".", ".">>

NewChat == <<"N", "e", "w", " ", "C", "h", "a", "t">>

Pattern(n) == [i \in 1..n |-> IF i % 3 = 1 THEN "a" ELSE IF i % 3 = 2 THEN "b" ELSE "c"]

\* Message texts: shorter than, exactly, and longer than TitleMax characters.
Contents == {Pattern(2), Pattern(TitleMax), Pattern(TitleMax + 3)}

\* Texts conversation.predict can return.
Replies == {<<"o", "k">>}

Message(content, role) == [content |-> content, role |-> role]

\* Python truthiness of an Optional[str] user id / title.
TruthyUser(u) == u # NoUser /\ u # ""

TruthyTitle(t) == t # NoTitle /\ t # <<>>

---------------------------------------------------------------------------
(* ConnectionManager *)

\* str(uuid.uuid4()): a value no earlier call returned.  The n-th call
\* returns n; every call is made by create_chat_session, which stores a
\* session under the value, so n - 1 is the number of stored sessions.
uuid4(sessions) == Cardinality(DOMAIN sessions) + 1

get_chat_session(sessions, session_id) ==
    IF session_id \in DOMAIN sessions THEN sessions[session_id] ELSE Unset

\* Variant: the title is stored as given, None included.
NewChatSession_NoDefault(session_id, user_id, title) ==
    [id |-> session_id, user_id |-> user_id, messages |-> <<>>, title |-> title]

NewChatSession(session_id, user_id, title) ==
    [id       |-> session_id,
     user_id  |-> user_id,
     messages |-> <<>>,
     title    |-> IF TruthyTitle(title) THEN title ELSE NewChat]

\* create_chat_session: the store after the call
SessionsAfterCreate(sessions, user_id, title) ==
    LET session_id == uuid4(sessions)
    IN  [s \in DOMAIN sessions \cup {session_id} |->
            IF s = session_id THEN NewChatSession(session_id, user_id, title)
                              ELSE sessions[s]]

\* Variant: the list of the user is replaced instead of extended.
UserSessionsAfterCreate_Overwrite(index, session_id, user_id) ==
    IF TruthyUser(user_id)
    THEN [u \in DOMAIN index \cup {user_id} |->
            IF u = user_id THEN <<session_id>> ELSE index[u]]
    ELSE index

\* create_chat_session: the user index after the call
UserSessionsAfterCreate(index, session_id, user_id) ==
    IF TruthyUser(user_id)
    THEN [u \in DOMAIN index \cup {user_id} |->
            IF u = user_id
            THEN Append(IF u \in DOMAIN index THEN index[u] ELSE <<>>, session_id)
            ELSE index[u]]
    ELSE index

\* Variant: a text of exactly TitleMax characters is truncated too.
DerivedTitle_OffByOne(content) ==
    IF Len(content) >= TitleMax
    THEN SubSeq(content, 1, TitleMax) \o Ellipsis
    ELSE content

\* message.content[:30] + "..." if len(message.content) > 30 else message.content
DerivedTitle(content) ==
    IF Len(content) > TitleMax
    THEN SubSeq(content, 1, TitleMax) \o Ellipsis
    ELSE content

\* Variant: the message replaces the transcript instead of extending it.
add_message_to_session_Replace(sessions, session_id, message) ==
    IF session_id \in DOMAIN sessions
    THEN [sessions EXCEPT ![session_id] =
             [@ EXCEPT !.messages = <<message>>,
                       !.title = IF message.role = "user"
                                 THEN DerivedTitle(message.content) ELSE @]]
    ELSE sessions

\* add_message_to_session: the store after the call
add_message_to_session(sessions, session_id, message) ==
    IF session_id \in DOMAIN sessions
    THEN LET old      == sessions[session_id]
             messages == Append(old.messages, message)
             title    == IF Len(messages) = 1 /\ message.role = "user"
                         THEN DerivedTitle(message.content)
                         ELSE old.title
         IN  [sessions EXCEPT ![session_id] =
                 [old EXCEPT !.messages = messages, !.title = title]]
    ELSE sessions

\* get_user_sessions: the ids of the sessions returned, or "KeyError" when
\* the index names a session the store does not hold.
get_user_sessions(sessions, index, user_id) ==
    IF user_id \notin DOMAIN index THEN <<>>
    ELSE IF \A i \in 1..Len(index[user_id]) : index[user_id][i] \in DOMAIN sessions
         THEN index[user_id]
         ELSE <<"KeyError">>

\* disconnect: the registry after the call
disconnect(connections, cid) ==
    [c \in DOMAIN connections \ {cid} |-> connections[c]]

\* connect: the registry after the call
connect(connections, websocket, cid) ==
    [c \in DOMAIN connections \cup {cid} |->
        IF c = cid THEN websocket ELSE connections[c]]

---------------------------------------------------------------------------
(* State of the process *)

TotalMessages ==
    LET RECURSIVE Sum(_)
        Sum(S) == IF S = {} THEN 0
                  ELSE LET s == CHOOSE x \in S : TRUE
                       IN  Len(chat_sessions[s].messages) + Sum(S \ {s})
    IN  Sum(DOMAIN chat_sessions)

\* conversation.predict is a blocking call: while a coroutine is inside it
\* the event loop runs nothing else.
LoopFree == \A w \in Channels : pc[w] # "completion_pending"

Connected(w) == pc[w] \in {"awaiting_frame", "completion_pending"}

Init ==
    /\ active_connections = <<>>
    /\ chat_sessions = <<>>
    /\ user_sessions = <<>>
    /\ pc = [w \in Channels |-> "new"]
    /\ client_id = [w \in Channels |-> ""]
    /\ session = [w \in Channels |-> NoId]
    /\ received = Unset
    /\ sent = Unset
    /\ response = Unset


---------------------------------------------------------------------------
(* Frames *)

\* The records json.loads can yield for a frame.
FramesOf(session_ids, user_ids, titles, messages) ==
    [session_id : session_ids, user_id : user_ids, title : titles, message : messages]

\* Every frame, given the store: session_id absent, the id of a stored
\* session, or an id the store never issued.
Frames ==
    FramesOf({NoId} \cup DOMAIN chat_sessions \cup ForeignIds,
             UserIdInputs, TitleInputs, Contents \cup {Missing})

\* Variant: the looked-up session is never reused.
SessionKnown_Never(sessions, session_id) == FALSE

\* `if not session': whether websocket_endpoint reuses the looked-up session
SessionKnown(sessions, session_id) ==
    get_chat_session(sessions, session_id) # Unset

---------------------------------------------------------------------------
(* websocket_endpoint *)

\* The local message_data is not part of the state: after the session is
\* resolved the code reads only message_data["message"], to pass it to
\* predict, whose result the model leaves open.  The local session is read
\* until the reply is sent; the model forgets it when the frame is done.
Forget(w) == session' = [session EXCEPT ![w] = NoId]

\* received, sent and response show what the step just taken read from a
\* websocket, wrote to a websocket, and answered to an HTTP request.
\* A step that does none of these:
Quiet == received' = Unset /\ sent' = Unset /\ response' = Unset

\* await manager.connect(websocket, client_id).  Websockets are numbered in
\* the order in which they are accepted.
Connect(w, cid) ==
    /\ LoopFree
    /\ pc[w] = "new"
    /\ \A v \in Channels : v < w => pc[v] # "new"
    /\ active_connections' = connect(active_connections, w, cid)
    /\ client_id' = [client_id EXCEPT ![w] = cid]
    /\ pc' = [pc EXCEPT ![w] = "awaiting_frame"]
    /\ Quiet
    /\ UNCHANGED <<chat_sessions, user_sessions, session>>

\* receive_text raises WebSocketDisconnect; the handler calls manager.disconnect.
Disconnect(w) ==
    /\ LoopFree
    /\ pc[w] = "awaiting_frame"
    /\ active_connections' = disconnect(active_connections, client_id[w])
    /\ pc' = [pc EXCEPT ![w] = "closed"]
    /\ Quiet
    /\ UNCHANGED <<chat_sessions, user_sessions, client_id, session>>

\* json.loads raises on a frame that is not JSON: the exception is not a
\* WebSocketDisconnect and leaves websocket_endpoint.
FrameMalformed(w) ==
    /\ LoopFree
    /\ pc[w] = "awaiting_frame"
    /\ pc' = [pc EXCEPT ![w] = "failed"]
    /\ Quiet
    /\ UNCHANGED <<active_connections, chat_sessions, user_sessions, client_id, session>>

\* One frame, from receive_text up to the call of conversation.predict:
\* resolve or create the session, then append the user message.  A frame
\* without "message" raises KeyError after the session was resolved.
ReceiveFrame(w, f) ==
    /\ LoopFree
    /\ pc[w] = "awaiting_frame"
    /\ LET known   == SessionKnown(chat_sessions, f.session_id)
           sid     == IF known THEN get_chat_session(chat_sessions, f.session_id).id
                               ELSE uuid4(chat_sessions)
           created == IF known THEN chat_sessions
                               ELSE SessionsAfterCreate(chat_sessions, f.user_id, f.title)
           index   == IF known THEN user_sessions
                               ELSE UserSessionsAfterCreate(user_sessions, sid, f.user_id)
       IN  /\ IF known THEN TRUE ELSE Cardinality(DOMAIN chat_sessions) < MaxSessions
           /\ IF f.message = Missing THEN TRUE ELSE TotalMessages + 2 <= MaxMessages
           /\ user_sessions' = index
           /\ IF f.message = Missing
              THEN /\ chat_sessions' = created
                   /\ pc' = [pc EXCEPT ![w] = "failed"]
                   /\ UNCHANGED session
              ELSE /\ chat_sessions' =
                         add_message_to_session(created, sid, Message(f.message, "user"))
                   /\ pc' = [pc EXCEPT ![w] = "completion_pending"]
                   /\ session' = [session EXCEPT ![w] = sid]
    /\ received' = [by |-> w, frame |-> f]
    /\ sent' = Unset
    /\ response' = Unset
    /\ UNCHANGED <<active_connections, client_id>>

\* The frame sent back: json.dumps({"session_id", "message", "timestamp"}).
Reply(w, ai_response) == [session_id |-> session[w], message |-> ai_response]

\* manager.send_message: the websocket the text is written to, 0 when the
\* client id has no entry (nothing is written).
SendTarget(connections, cid) ==
    IF cid \in DOMAIN connections THEN connections[cid] ELSE 0

\* The send_message call made by the coroutine of websocket w.
Sent(w, ai_response) ==
    [by        |-> w,
     websocket |-> SendTarget(active_connections, client_id[w]),
     text      |-> Reply(w, ai_response)]

\* The store after predict returned and the assistant message was appended.
AfterAssistant(w, ai_response) ==
    add_message_to_session(chat_sessions, session[w], Message(ai_response, "assistant"))

\* The websocket registered under client_id belongs to a coroutine that has
\* ended with an exception (its entry was never removed).  What send_text
\* does on such a websocket depends on the server library.
TargetDead(w) ==
    LET target == SendTarget(active_connections, client_id[w])
    IN  IF target = 0 THEN FALSE ELSE ~Connected(target)

\* predict returns; the assistant message is appended; send_message writes
\* the reply to the websocket registered under client_id, if any, and the
\* loop goes back to receive_text.
CompletionReturn(w, ai_response) ==
    /\ pc[w] = "completion_pending"
    /\ ~TargetDead(w)
    /\ chat_sessions' = AfterAssistant(w, ai_response)
    /\ sent' = Sent(w, ai_response)
    /\ pc' = [pc EXCEPT ![w] = "awaiting_frame"]
    /\ Forget(w)
    /\ received' = Unset
    /\ response' = Unset
    /\ UNCHANGED <<active_connections, user_sessions, client_id>>

\* ... send_text on a dead websocket raises an exception other than
\* WebSocketDisconnect, which leaves websocket_endpoint
CompletionReturnSendRaises(w, ai_response) ==
    /\ pc[w] = "completion_pending"
    /\ TargetDead(w)
    /\ chat_sessions' = AfterAssistant(w, ai_response)
    /\ pc' = [pc EXCEPT ![w] = "failed"]
    /\ Forget(w)
    /\ Quiet
    /\ UNCHANGED <<active_connections, user_sessions, client_id>>

\* ... send_text on a dead websocket raises WebSocketDisconnect, which the
\* handler catches
CompletionReturnSendDisconnects(w, ai_response) ==
    /\ pc[w] = "completion_pending"
    /\ TargetDead(w)
    /\ chat_sessions' = AfterAssistant(w, ai_response)
    /\ active_connections' = disconnect(active_connections, client_id[w])
    /\ pc' = [pc EXCEPT ![w] = "closed"]
    /\ Forget(w)
    /\ Quiet
    /\ UNCHANGED <<user_sessions, client_id>>

\* ... send_text on a dead websocket returns and the text is lost
CompletionReturnSendLost(w, ai_response) ==
    /\ pc[w] = "completion_pending"
    /\ TargetDead(w)
    /\ chat_sessions' = AfterAssistant(w, ai_response)
    /\ sent' = Sent(w, ai_response)
    /\ pc' = [pc EXCEPT ![w] = "awaiting_frame"]
    /\ Forget(w)
    /\ received' = Unset
    /\ response' = Unset
    /\ UNCHANGED <<active_connections, user_sessions, client_id>>

\* predict raises: the exception is not a WebSocketDisconnect and leaves
\* websocket_endpoint.
CompletionRaise(w) ==
    /\ pc[w] = "completion_pending"
    /\ pc' = [pc EXCEPT ![w] = "failed"]
    /\ Forget(w)
    /\ Quiet
    /\ UNCHANGED <<active_connections, chat_sessions, user_sessions, client_id>>

---------------------------------------------------------------------------
(* HTTP endpoints *)

\* Variant: the owner is not checked.
get_session_NoOwnerCheck(sessions, session_id, username) ==
    LET found == get_chat_session(sessions, session_id)
    IN  IF found = Unset
        THEN [status |-> 404, detail |-> "Session not found"]
        ELSE [status |-> 200, body |-> found]

\* GET /sessions/{session_id}
get_session(sessions, session_id, username) ==
    LET found == get_chat_session(sessions, session_id)
    IN  IF found = Unset
        THEN [status |-> 404, detail |-> "Session not found"]
        ELSE IF TruthyUser(found.user_id) /\ found.user_id # username
        THEN [status |-> 403, detail |-> "Not authorized to access this session"]
        ELSE [status |-> 200, body |-> found]

GetSession(session_id, username) ==
    /\ LoopFree
    /\ response' = [op |-> "get_session", session_id |-> session_id,
                    username |-> username,
                    result |-> get_session(chat_sessions, session_id, username)]
    /\ received' = Unset
    /\ sent' = Unset
    /\ UNCHANGED <<active_connections, chat_sessions, user_sessions, pc, client_id, session>>

\* POST /sessions
CreateSession(title, username) ==
    /\ LoopFree
    /\ Cardinality(DOMAIN chat_sessions) < MaxSessions
    /\ chat_sessions' = SessionsAfterCreate(chat_sessions, username, title)
    /\ user_sessions' =
           UserSessionsAfterCreate(user_sessions, uuid4(chat_sessions), username)
    /\ response' = [op |-> "create_session", title |-> title, username |-> username,
                    result |-> [status |-> 200,
                                body |-> chat_sessions'[uuid4(chat_sessions)]]]
    /\ received' = Unset
    /\ sent' = Unset
    /\ UNCHANGED <<active_connections, pc, client_id, session>>

\* GET /sessions
GetUserSessions(username) ==
    /\ LoopFree
    /\ response' = [op |-> "get_user_sessions", username |-> username,
                    result |-> get_user_sessions(chat_sessions, user_sessions, username)]
    /\ received' = Unset
    /\ sent' = Unset
    /\ UNCHANGED <<active_connections, chat_sessions, user_sessions, pc, client_id, session>>

---------------------------------------------------------------------------

\* Session ids a caller can put in a request: stored, never issued, not yet issued.
RequestIds == DOMAIN chat_sessions \cup ForeignIds \cup {uuid4(chat_sessions)}

Next ==
    \/ \E w \in Channels, cid \in ClientIds : Connect(w, cid)
    \/ \E w \in Channels : Disconnect(w)
    \/ \E w \in Channels : FrameMalformed(w)
    \/ \E w \in Channels : \E f \in Frames : ReceiveFrame(w, f)
    \/ \E w \in Channels, r \in Replies : CompletionReturn(w, r)
    \/ \E w \in Channels, r \in Replies : CompletionReturnSendRaises(w, r)
    \/ \E w \in Channels, r \in Replies : CompletionReturnSendDisconnects(w, r)
    \/ \E w \in Channels, r \in Replies : CompletionReturnSendLost(w, r)
    \/ \E w \in Channels : CompletionRaise(w)
    \/ \E sid \in RequestIds, u \in Usernames : GetSession(sid, u)
    \/ \E t \in TitleInputs, u \in Usernames : CreateSession(t, u)
    \/ \E u \in Usernames : GetUserSessions(u)

Spec == Init /\ [][Next]_vars

---------------------------------------------------------------------------
(* The frame protocol on several websockets.  The frames carry no user id *)
(* and no title and one message text: the loop never branches on them.    *)

ProtocolFrames ==
    FramesOf({NoId} \cup DOMAIN chat_sessions, {NoUser}, {NoTitle},
             {Pattern(2), Missing})

NextProtocol ==
    \/ \E w \in Channels, cid \in ClientIds : Connect(w, cid)
    \/ \E w \in Channels : Disconnect(w)
    \/ \E w \in Channels : FrameMalformed(w)
    \/ \E w \in Channels : \E f \in ProtocolFrames : ReceiveFrame(w, f)
    \/ \E w \in Channels, r \in Replies : CompletionReturn(w, r)
    \/ \E w \in Channels, r \in Replies : CompletionReturnSendRaises(w, r)
    \/ \E w \in Channels, r \in Replies : CompletionReturnSendDisconnects(w, r)
    \/ \E w \in Channels, r \in Replies : CompletionReturnSendLost(w, r)
    \/ \E w \in Channels : CompletionRaise(w)

SpecProtocol == Init /\ [][NextProtocol]_vars

---------------------------------------------------------------------------
(* The session store under every input, driven by the HTTP endpoints and  *)
(* by the frames of one websocket.                                         *)

NextStore ==
    \/ Connect(1, "x")
    \/ Disconnect(1)
    \/ \E f \in Frames : ReceiveFrame(1, f)
    \/ \E r \in Replies : CompletionReturn(1, r)
    \/ CompletionRaise(1)
    \/ \E sid \in RequestIds, u \in Usernames : GetSession(sid, u)
    \/ \E t \in TitleInputs, u \in Usernames : CreateSession(t, u)
    \/ \E u \in Usernames : GetUserSessions(u)

SpecStore == Init /\ [][NextStore]_vars

---------------------------------------------------------------------------
(* Helpers of the properties *)

Last(seq) == seq[Len(seq)]

\* The response of the step just taken is one of endpoint op.
Answered(op) == IF response = Unset THEN FALSE ELSE response.op = op

\* The elements of a set of session ids in ascending order: the model issues
\* ids in ascending order, so this is the order of creation.
RECURSIVE Ascending(_)
Ascending(S) ==
    IF S = {} THEN <<>>
    ELSE LET m == CHOOSE x \in S : \A y \in S : x <= y
         IN  <<m>> \o Ascending(S \ {m})

\* The sessions created with user_id = u, in creation order.
CreatedBy(u) == Ascending({s \in DOMAIN chat_sessions : chat_sessions[s].user_id = u})

IsPrefix(a, b) == Len(a) <= Len(b) /\ SubSeq(b, 1, Len(a)) = a

\* Sessions are never removed and the messages of a session only grow at the end.
AppendOnly ==
    \A s \in DOMAIN chat_sessions :
        /\ s \in DOMAIN chat_sessions'
        /\ chat_sessions'[s].id = chat_sessions[s].id
        /\ chat_sessions'[s].user_id = chat_sessions[s].user_id
        /\ IsPrefix(chat_sessions[s].messages, chat_sessions'[s].messages)

---------------------------------------------------------------------------
(* C1: session resolution in the frame loop *)

\* What the claim says a frame f received on websocket w does to the store.
ResolvedAsClaimed(w, f) ==
    IF f.session_id \in DOMAIN chat_sessions
    THEN \* a known id: that session is reused, none is created
         /\ DOMAIN chat_sessions' = DOMAIN chat_sessions
         /\ chat_sessions'[f.session_id].id = f.session_id
         /\ f.message # Missing =>
               /\ pc'[w] = "completion_pending"
               /\ session'[w] = f.session_id
               /\ Len(chat_sessions'[f.session_id].messages) =
                     Len(chat_sessions[f.session_id].messages) + 1
    ELSE \* no id or an unknown id: one session with a new id is created
         \E n \in DOMAIN chat_sessions' \ DOMAIN chat_sessions :
            /\ DOMAIN chat_sessions' = DOMAIN chat_sessions \cup {n}
            /\ n # f.session_id
            /\ \A w2 \in Channels : n # session[w2]
            /\ chat_sessions'[n].id = n
            /\ chat_sessions'[n].user_id = f.user_id
            /\ f.message = Missing =>
                  chat_sessions'[n].title = IF TruthyTitle(f.title) THEN f.title ELSE NewChat
            /\ f.message # Missing =>
                  /\ pc'[w] = "completion_pending"
                  /\ session'[w] = n
                  /\ Len(chat_sessions'[n].messages) = 1

\* C1: every frame with a known session_id reuses that session (same id, no
\* session created, one more message); every frame with no session_id or an
\* unknown one creates one session under an id that is new to the store and
\* is not the supplied id, from the frame's user_id and title, and the loop
\* goes on to the completion call.
C1_SessionResolution ==
    [][received' # Unset => ResolvedAsClaimed(received'.by, received'.frame)]_vars

\* A frame is being processed on session 1 although session 2 was created
\* before the frame arrived: the frame reused session 1.
C1_Witness ==
    /\ DOMAIN chat_sessions = {1, 2}
    /\ pc[1] = "completion_pending"
    /\ session[1] = 1
    /\ Len(chat_sessions[1].messages) = 1

---------------------------------------------------------------------------
(* C2: session creation *)

\* The title the claim gives a session created with title t.
TitleAsClaimed(t) == IF t = NoTitle THEN NewChat ELSE t

\* The title a session created with title t has: an empty title counts as none.
TitleAsAmended(t) == IF t = NoTitle \/ t = <<>> THEN NewChat ELSE t

\* create_chat_session applied to the current store, for every input
CreateShape(Title(_)) ==
    \A u \in UserIdInputs, t \in TitleInputs :
        LET after == SessionsAfterCreate(chat_sessions, u, t)
        IN  \E n \in DOMAIN after \ DOMAIN chat_sessions :
               /\ DOMAIN after = DOMAIN chat_sessions \cup {n}
               /\ after[n].id = n
               /\ \A s \in DOMAIN chat_sessions :
                     chat_sessions[s].id # n /\ after[s] = chat_sessions[s]
               /\ after[n].messages = <<>>
               /\ after[n].user_id = u
               /\ after[n].title = Title(t)

\* a step that creates a session
CreateStep(Title(_)) ==
    DOMAIN chat_sessions' # DOMAIN chat_sessions =>
        \E n \in DOMAIN chat_sessions' \ DOMAIN chat_sessions :
           /\ DOMAIN chat_sessions' = DOMAIN chat_sessions \cup {n}
           /\ chat_sessions'[n].id = n
           /\ \A s \in DOMAIN chat_sessions :
                 chat_sessions[s].id # n /\ chat_sessions'[s] = chat_sessions[s]
           /\ response' # Unset =>
                 /\ response'.op = "create_session"
                 /\ response'.result.body = chat_sessions'[n]
                 /\ chat_sessions'[n].messages = <<>>
                 /\ chat_sessions'[n].title = Title(response'.title)
           /\ response' = Unset =>
                 /\ received' # Unset
                 /\ received'.frame.message = Missing =>
                       /\ chat_sessions'[n].messages = <<>>
                       /\ chat_sessions'[n].title = Title(received'.frame.title)

\* C2 as stated: every creation returns a session whose id no stored session
\* has, with no messages, titled with the given title, or "New Chat" when no
\* title is given, and leaves the stored sessions unchanged.
C2_Original == [][CreateStep(TitleAsClaimed)]_vars

\* C2 as amended: every creation (POST /sessions, or a frame that mints a
\* session) returns a session whose id no stored session has, with no
\* messages, titled with the given title when that is a non-empty string and
\* "New Chat" when no title or the empty string is given, and leaves the
\* stored sessions unchanged.
C2_CreateSession == [](CreateShape(TitleAsAmended)) /\ [][CreateStep(TitleAsAmended)]_vars

\* POST /sessions without a title has just answered while another session
\* with messages was in the store.
C2_Witness ==
    /\ Answered("create_session")
    /\ response.title = NoTitle
    /\ response.result.body.id = 2
    /\ response.result.body.title = NewChat
    /\ Len(chat_sessions[1].messages) = 2

---------------------------------------------------------------------------
(* C3: GET /sessions/{session_id} *)

NotFound == [status |-> 404, detail |-> "Session not found"]

\* The outcome the claim gives; Owned(o) says when user_id o makes an owner.
GetOutcome(Owned(_)) ==
    Answered("get_session") =>
        LET sid == response.session_id
            u   == response.username
            r   == response.result
        IN  IF sid \notin DOMAIN chat_sessions
            THEN r = NotFound
            ELSE LET o == chat_sessions[sid].user_id
                 IN  /\ Owned(o) /\ o # u => r.status = 403
                     /\ o = u => r.status = 200 /\ r.body.id = sid
                                 /\ r.body = chat_sessions[sid]

OwnedAsClaimed(o) == o # NoUser

OwnedAsAmended(o) == o # NoUser /\ o # ""

\* C3 as stated: a session whose user_id is set to another user than the
\* caller is answered 403.
C3_Original == GetOutcome(OwnedAsClaimed)

\* Sessions without an owner: user_id None or the empty string.
Unowned(sid) == chat_sessions[sid].user_id \in {NoUser, ""}

\* C3 as amended: an id not in the store is answered 404 "Session not
\* found"; a session whose user_id is a non-empty string other than the
\* caller's name is answered 403; a session whose user_id is the caller's
\* name is answered with that session; a session whose user_id is None or
\* the empty string is answered with that session to every caller.
\* Sessions are never removed and keep their id and user_id, so the owner
\* of a stored session can fetch it in every later state.
C3_GetSession ==
    /\ [](/\ GetOutcome(OwnedAsAmended)
          /\ (/\ Answered("get_session")
               /\ response.session_id \in DOMAIN chat_sessions
               /\ Unowned(response.session_id)) => response.result.status = 200
          /\ \A s \in DOMAIN chat_sessions :
                LET o == chat_sessions[s].user_id
                IN  /\ chat_sessions[s].id = s
                    /\ OwnedAsAmended(o) =>
                          get_session(chat_sessions, s, o) =
                              [status |-> 200, body |-> chat_sessions[s]])
    /\ [][AppendOnly]_vars

\* A caller was just refused a session of another user.
C3_Witness ==
    /\ Answered("get_session")
    /\ response.result.status = 403
    /\ chat_sessions[response.session_id].user_id \in Usernames

---------------------------------------------------------------------------
(* C4, C5: the title and the first user message *)

\* The title the claim derives from a text: the text when it has at most
\* TitleMax characters, else its first TitleMax characters and "...".
TitleAsDerived(content) ==
    IF Len(content) <= TitleMax THEN content
    ELSE [i \in 1..(TitleMax + 3) |-> IF i <= TitleMax THEN content[i] ELSE "."]

\* a step that appends one message to a session (or mints it with one)
TitleStep ==
    \A s \in DOMAIN chat_sessions' :
        LET new   == chat_sessions'[s]
            fresh == s \notin DOMAIN chat_sessions
            old_n == IF fresh THEN 0 ELSE Len(chat_sessions[s].messages)
        IN  Len(new.messages) = old_n + 1 =>
               IF old_n = 0 /\ Last(new.messages).role = "user"
               THEN new.title = TitleAsDerived(Last(new.messages).content)
               ELSE ~fresh /\ new.title = chat_sessions[s].title

\* add_message_to_session with an assistant message on a session without
\* messages (the frame loop never does this)
FirstNotUser ==
    \A s \in DOMAIN chat_sessions : \A c \in Contents :
        chat_sessions[s].messages = <<>> =>
            add_message_to_session(chat_sessions, s, Message(c, "assistant"))[s].title
                = chat_sessions[s].title

C5_ExplicitTitleKept ==
    [][\A s \in DOMAIN chat_sessions :
          (/\ chat_sessions[s].messages = <<>>
           /\ chat_sessions[s].title # NewChat
           /\ Len(chat_sessions'[s].messages) = 1
           /\ chat_sessions'[s].messages[1].role = "user")
          => chat_sessions'[s].title = chat_sessions[s].title]_vars

---------------------------------------------------------------------------
(* C6: the user index *)

IndexOf(Users) ==
    /\ \A u \in Users :
          get_user_sessions(chat_sessions, user_sessions, u) = CreatedBy(u)
    /\ \A u \in DOMAIN user_sessions : \A i \in 1..Len(user_sessions[u]) :
          user_sessions[u][i] \in DOMAIN chat_sessions

\* C6 as stated: for every user id u, the empty string included,
\* get_user_sessions(u) is the list of the sessions created with
\* user_id = u, in creation order.
C6_Original == IndexOf(UserIdInputs \ {NoUser})

IndexGrows ==
    \A u \in DOMAIN user_sessions :
        u \in DOMAIN user_sessions' /\ IsPrefix(user_sessions[u], user_sessions'[u])

\* C6 as amended: for every non-empty user id u, get_user_sessions(u) is the
\* list of the sessions created with user_id = u, each once and in creation
\* order (empty when there is none); for the empty string it is empty,
\* whatever sessions were created with user_id = ""; every id in the index
\* is the id of a stored session; GET /sessions answers with that list; and
\* the list of a user only grows at its end.
C6_UserIndex ==
    /\ [](/\ IndexOf(Usernames)
          /\ get_user_sessions(chat_sessions, user_sessions, "") = <<>>
          /\ get_user_sessions(chat_sessions, user_sessions, NoUser) = <<>>
          /\ Answered("get_user_sessions") =>
                response.result = CreatedBy(response.username))
    /\ [][IndexGrows]_vars

\* GET /sessions has just answered a user who created two sessions.
C6_Witness ==
    /\ Answered("get_user_sessions")
    /\ Len(response.result) = 2
    /\ response.result[1] < response.result[2]

---------------------------------------------------------------------------
(* C7: where the reply goes *)

\* C7 as stated: whenever the loop of a websocket has sent a reply, it wrote
\* it to that same websocket, and the reply carries the id of the session
\* that got the assistant message.
C7_ReplyOnSameChannel ==
    sent # Unset =>
        /\ sent.websocket = sent.by
        /\ sent.text.session_id \in DOMAIN chat_sessions
        /\ Last(chat_sessions[sent.text.session_id].messages).role = "assistant"

---------------------------------------------------------------------------
(* C8: the registry after a loop has ended *)

Ended(w) == pc[w] \in {"closed", "failed"}

\* C8 as stated: the registry holds no entry for a websocket whose loop has
\* ended, whether it ended by a disconnect or by a failure.
C8_NoEntryAfterLoopEnd ==
    \A w \in Channels :
        Ended(w) => SendTarget(active_connections, client_id[w]) # w

---------------------------------------------------------------------------
(* C9: a completion call that does not return *)

\* The loop of websocket v can take a frame off its websocket.
CanReceive(v) ==
    ENABLED (FrameMalformed(v) \/ \E f \in ProtocolFrames : ReceiveFrame(v, f))

\* C9 as stated: while the loop of one websocket is inside the completion
\* call, the loop of every other websocket that awaits a frame can receive one.
C9_OthersNotStalled ==
    \A w \in Channels, v \in Channels :
        (w # v /\ pc[w] = "completion_pending" /\ pc[v] = "awaiting_frame")
            => CanReceive(v)

---------------------------------------------------------------------------
(* C10: the shape of a transcript *)

Roles(messages) == [i \in 1..Len(messages) |-> messages[i].role]

\* user, assistant, user, assistant, ...
Paired(messages) ==
    /\ Len(messages) % 2 = 0
    /\ \A i \in 1..Len(messages) :
          messages[i].role = IF i % 2 = 1 THEN "user" ELSE "assistant"

\* Some loop is between the user append and the assistant append on session s.
InFlight(s) == \E w \in Channels : pc[w] = "completion_pending" /\ session[w] = s

\* C10 as stated: every transcript with no frame in flight is a sequence of
\* user/assistant pairs, and transcripts only grow at the end.
C10_Original ==
    /\ [](\A s \in DOMAIN chat_sessions :
             ~InFlight(s) => Paired(chat_sessions[s].messages))
    /\ [][AppendOnly]_vars

\* Every assistant message directly follows a user message.
Answering(messages) ==
    \A i \in 1..Len(messages) :
        /\ messages[i].role \in {"user", "assistant"}
        /\ messages[i].role = "assistant" => i > 1 /\ messages[i - 1].role = "user"

\* The user messages of a transcript that no assistant message follows.
Unanswered(messages) ==
    {i \in 1..Len(messages) :
        /\ messages[i].role = "user"
        /\ IF i = Len(messages) THEN TRUE ELSE messages[i + 1].role = "user"}

RECURSIVE UnansweredIn(_)
UnansweredIn(S) ==
    IF S = {} THEN 0
    ELSE LET s == CHOOSE x \in S : TRUE
         IN  Cardinality(Unanswered(chat_sessions[s].messages)) + UnansweredIn(S \ {s})

\* The loops that ended with an exception or are inside the completion call.
FailedOrPending == {w \in Channels : pc[w] \in {"failed", "completion_pending"}}

\* C10 as amended: in every transcript each assistant message directly
\* follows the user message it replies to, and the reply frame just sent
\* holds the text of the last assistant message of its session.  A user
\* message stays without a reply when the completion call of its frame
\* raised or has not returned: over all sessions there are at most as many
\* such messages as there are loops that failed or are inside the
\* completion call, so while there is no such loop every transcript is a
\* sequence of user/assistant pairs.  Messages are never removed, reordered
\* or changed.
C10_TranscriptShape ==
    /\ [](/\ \A s \in DOMAIN chat_sessions : Answering(chat_sessions[s].messages)
          /\ UnansweredIn(DOMAIN chat_sessions) <= Cardinality(FailedOrPending)
          /\ FailedOrPending = {} =>
                \A s \in DOMAIN chat_sessions : Paired(chat_sessions[s].messages)
          /\ sent # Unset =>
                Last(chat_sessions[sent.text.session_id].messages)
                    = Message(sent.text.message, "assistant"))
    /\ [][AppendOnly]_vars

\* A transcript holds a user message whose completion failed, followed by
\* the pair of a later frame.
C10_Witness ==
    \E s \in DOMAIN chat_sessions :
        Roles(chat_sessions[s].messages) = <<"user", "user", "assistant">>

=============================================================================
